---- MODULE Spec2Model ----
(***************************************************************************)
(* Job Orchestration Core of Subzero-Blackbox: the durable job queue       *)
(* (worker/db.py, api/main.py), the worker loop (worker/engine.py) and the *)
(* profile switcher (scripts/profile_switcher.py).                         *)
(*                                                                         *)
(* Three kinds of process touch the shared stores (the jobs/runs/          *)
(* profiles_log tables and config.yaml):                                   *)
(*   - the API, which only inserts queued Jobs;                            *)
(*   - the worker loop, a single process that may be interrupted and       *)
(*     started again any number of times;                                  *)
(*   - profile_switcher.py `set`, run as a subprocess by the worker (the   *)
(*     worker blocks until it exits) or independently from the CLI.        *)
(* cmd_set is split at every access to a shared store, so that the other   *)
(* processes interleave between its reads and writes as they do on the     *)
(* host.                                                                   *)
(***************************************************************************)
EXTENDS Integers, Sequences, FiniteSets, TLC

\* ---- bounds of the model ------------------------------------------------
MaxJobs == 2
MaxCli == 1
MaxPlugins == 2

\* ---- values ---------------------------------------------------------------
\* Python's None (an absent mapping entry, an unset active profile).
None == "None"

\* The two places profile_switcher.py `set` is invoked from.
Procs == {"worker", "cli"}

\* Job types submitted through the API in the model: a handled type with a
\* required profile, a handled type with none, a type that has a (different)
\* required profile but no handler, and a type unknown everywhere.
JobTypeInputs == {"wifi_recon", "hash_lookup", "web_recon", "unknown_type"}

\* Names given to `set` from the CLI: catalog names and one unknown name.
CliNameInputs == {"idle", "wifi_audit", "no_such_profile"}

\* ---- engine.py: the type -> profile map and the dispatch -----------------
JOB_PROFILE_MAP ==
  [t \in {"wifi_recon", "wifi_active", "bt_recon", "bt_active", "hash_lookup",
          "web_recon", "web_attack", "lan_recon", "lan_attack"} |->
     CASE t \in {"wifi_recon", "wifi_active"} -> "wifi_audit"
       [] t \in {"bt_recon", "bt_active"} -> "bluetooth_audit"
       [] t = "hash_lookup" -> None
       [] t \in {"web_recon", "lan_recon"} -> "stealth_recon"
       [] t \in {"web_attack", "lan_attack"} -> "aggressive_recon"]

\* JOB_PROFILE_MAP.get(job_type): None for a type that is not a key.
get_profile_for_job(job_type) ==
  IF job_type \in DOMAIN JOB_PROFILE_MAP THEN JOB_PROFILE_MAP[job_type] ELSE None

\* The types process_job's if/elif chain dispatches to a module.
HandledTypes == {"wifi_recon", "wifi_active", "bt_recon", "bt_active", "hash_lookup"}

\* How a module body can end.  process_job calls wifi_recon.run(job.profile)
\* (and likewise wifi_active, bt_recon, bt_active) with the profile string or
\* None where run(job) reads job.profile as its first statement, outside any
\* try: the call raises AttributeError.  run_hash_lookup(session, job) returns
\* or raises (a failing commit, a malformed params document).
BodyOutcomes(job_type) ==
  IF job_type = "hash_lookup" THEN {"return", "raise"} ELSE {"raise"}

\* ---- profiles.yaml: the profile catalog ----------------------------------
\* The catalog is configuration, read on every `set`.  Two catalogs are
\* explored: one holding every profile the worker can ask for, and one from
\* which stealth_recon is missing.
ProfileData(via, dis, en) ==
  [internet_via |-> via, disable_interfaces |-> dis, enable_interfaces |-> en]

CatalogFull ==
  [n \in {"idle", "wifi_audit", "bluetooth_audit", "stealth_recon"} |->
     CASE n = "idle" -> ProfileData("wifi", <<>>, <<"wlan0">>)
       [] n = "wifi_audit" -> ProfileData("usb", <<"hci0">>, <<"wlan1">>)
       [] n = "bluetooth_audit" -> ProfileData("wifi", <<"wlan1">>, <<"hci0">>)
       [] n = "stealth_recon" -> ProfileData(None, <<"wlan1", "hci0">>, <<>>)]

CatalogPartial ==
  [n \in {"idle", "wifi_audit", "bluetooth_audit"} |-> CatalogFull[n]]

Catalogs == {CatalogFull, CatalogPartial}

VARIABLES
  jobs,      \* jobs table: sequence of [type, status], in creation order
  runs,      \* runs table: sequence of [job_id, exit_code, stderr]
  config,    \* config.yaml: [active_profile, enabled_plugins, ui]
  plog,      \* profiles_log table: sequence of [old_profile, new_profile, triggered_by]
  host,      \* what was done to the host: [ifaceCmds, uplinkCmds, uplink]
  profiles,  \* profiles.yaml: the catalog
  IS_ROOT,   \* os.geteuid() == 0 for the processes of this deployment
  sw,        \* the profile_switcher.py `set` process of each invoker
  w,         \* the worker process: [pc, batch, job]
  cliCalls,  \* number of CLI invocations so far
  pm,        \* the PluginManager of the hosting process: [plugins, enabled_plugins, last]
  ex,        \* a PluginExecutor caller: [plugins, smart, sequential]
  st         \* the other writers of config.yaml between their read and their write

vars == <<jobs, runs, config, plog, host, profiles, IS_ROOT, sw, w, cliCalls, pm, ex, st>>

\* config.yaml of a fresh installation: active profile idle, no enabled_plugins
\* key, the UI credentials as shipped.
FirstRunConfig == [active_profile |-> "idle", enabled_plugins |-> <<>>, ui |-> "admin"]

\* No read-modify-write of config.yaml by the API or the registry is under way.
StOff ==
  [api |-> [pc |-> "off", data |-> None], reg |-> [pc |-> "off", data |-> None]]

\* ---- profile_switcher.py helpers -----------------------------------------
\* Variant of has_running_jobs: the count of the limited query is compared
\* with the limit itself (count() > 1 after limit(1)), which no table satisfies.
has_running_jobs_off_by_one == FALSE

has_running_jobs == \E i \in 1..Len(jobs) : jobs[i].status = "running"

get_active_profile_name(cfg) == cfg.active_profile

set_active_profile_name(cfg, profile_name) ==
  [cfg EXCEPT !.active_profile = profile_name]

\* Number of non-empty interface names of a list: one command each.
RECURSIVE IfaceCount(_)
IfaceCount(ifaces) ==
  IF ifaces = <<>> THEN 0
  ELSE (IF Head(ifaces) = "" THEN 0 ELSE 1) + IfaceCount(Tail(ifaces))

\* Variant of apply_interfaces without the IS_ROOT guard of lines 211-217.
apply_interfaces_unguarded(h, is_root, disable, enable) ==
  [h EXCEPT !.ifaceCmds = @ + IfaceCount(disable) + IfaceCount(enable)]

\* apply_interfaces: nothing unless root; else one hciconfig / ip link command
\* per interface to disable, then per interface to enable.
apply_interfaces(h, is_root, disable, enable) ==
  IF ~is_root THEN h
  ELSE [h EXCEPT !.ifaceCmds = @ + IfaceCount(disable) + IfaceCount(enable)]

\* call_tethering_switch: invalid mode or not root: nothing; else run
\* tethering_switch.sh <mode>.
call_tethering_switch(h, is_root, mode) ==
  IF mode \notin {"wifi", "bluetooth", "usb", "off", "status"} THEN h
  ELSE IF ~is_root THEN h
  ELSE [h EXCEPT !.uplinkCmds = @ + 1, !.uplink = mode]

\* cmd_set lines 365-369: the uplink switch is made for wifi/bluetooth/usb only.
switch_tethering(h, is_root, internet_via) ==
  IF internet_via \in {"wifi", "bluetooth", "usb"}
  THEN call_tethering_switch(h, is_root, internet_via)
  ELSE h

\* A `set` process that is not running.
SwOff ==
  [pc |-> "off", name |-> None,
   cfg |-> [active_profile |-> None, enabled_plugins |-> <<>>, ui |-> None],
   rc |-> 0, msg |-> "none"]

\* Variant of cmd_set_begin without the already-active check of lines 343-346.
cmd_set_begin_not_idempotent(profile_name) ==
  IF profile_name \notin DOMAIN profiles
  THEN [SwOff EXCEPT !.pc = "exit", !.name = profile_name,
                     !.rc = 1, !.msg = "unknown_profile"]
  ELSE [SwOff EXCEPT !.pc = "check_running", !.name = profile_name,
                     !.cfg = config]

\* Variant of cmd_set_begin that returns instead of sys.exit(1) at line 332.
cmd_set_begin_unknown_returns(profile_name) ==
  IF profile_name \notin DOMAIN profiles
  THEN [SwOff EXCEPT !.pc = "exit", !.name = profile_name,
                     !.rc = 0, !.msg = "unknown_profile"]
  ELSE IF get_active_profile_name(config) = profile_name
  THEN [SwOff EXCEPT !.pc = "exit", !.name = profile_name,
                     !.rc = 0, !.msg = "already_active"]
  ELSE [SwOff EXCEPT !.pc = "check_running", !.name = profile_name,
                     !.cfg = config]

\* cmd_set lines 329-346: catalog check, read of config.yaml, already-active
\* check.  The result is the state of the process after these lines.
cmd_set_begin(profile_name) ==
  IF profile_name \notin DOMAIN profiles
  THEN [SwOff EXCEPT !.pc = "exit", !.name = profile_name,
                     !.rc = 1, !.msg = "unknown_profile"]
  ELSE IF get_active_profile_name(config) = profile_name
  THEN [SwOff EXCEPT !.pc = "exit", !.name = profile_name,
                     !.rc = 0, !.msg = "already_active"]
  ELSE [SwOff EXCEPT !.pc = "check_running", !.name = profile_name,
                     !.cfg = config]

\* main(): `set` returns 0 whenever cmd_set returns.
main_set_rc == 0

\* cmd_set lines 349-354: the running-job check.
SwCheckRunning(p) ==
  /\ sw[p].pc = "check_running"
  /\ sw' = [sw EXCEPT ![p] =
              IF has_running_jobs
              THEN [@ EXCEPT !.pc = "exit", !.cfg = SwOff.cfg, !.rc = main_set_rc,
                             !.msg = "refused"]
              ELSE [@ EXCEPT !.pc = "apply"]]
  /\ UNCHANGED <<jobs, runs, config, plog, host, profiles, IS_ROOT, w, cliCalls, pm, ex, st>>

\* cmd_set lines 362-369: interface commands and the uplink switch.
SwApply(p) ==
  /\ sw[p].pc = "apply"
  /\ LET pd == profiles[sw[p].name]
     IN host' = switch_tethering(
                  apply_interfaces(host, IS_ROOT,
                                   pd.disable_interfaces, pd.enable_interfaces),
                  IS_ROOT, pd.internet_via)
  /\ sw' = [sw EXCEPT ![p].pc = "save"]
  /\ UNCHANGED <<jobs, runs, config, plog, profiles, IS_ROOT, w, cliCalls, pm, ex, st>>

\* cmd_set lines 371-373: write config.yaml from the document read at line 339.
SwSave(p) ==
  /\ sw[p].pc = "save"
  /\ config' = set_active_profile_name(sw[p].cfg, sw[p].name)
  /\ sw' = [sw EXCEPT ![p].pc = "log"]
  /\ UNCHANGED <<jobs, runs, plog, host, profiles, IS_ROOT, w, cliCalls, pm, ex, st>>

insert_profile_log(log, old_profile, new_profile, triggered_by) ==
  Append(log, [old_profile |-> old_profile, new_profile |-> new_profile,
               triggered_by |-> triggered_by])

\* cmd_set lines 375-385: the profiles_log row, then exit.
SwLog(p) ==
  /\ sw[p].pc = "log"
  /\ plog' = insert_profile_log(plog, get_active_profile_name(sw[p].cfg),
                                sw[p].name, p)
  /\ sw' = [sw EXCEPT ![p] = [@ EXCEPT !.pc = "exit", !.cfg = SwOff.cfg,
                                       !.rc = main_set_rc, !.msg = "completed"]]
  /\ UNCHANGED <<jobs, runs, config, host, profiles, IS_ROOT, w, cliCalls, pm, ex, st>>

\* ---- the CLI --------------------------------------------------------------
\* python scripts/profile_switcher.py set <name>.
CliSet(profile_name) ==
  /\ sw["cli"].pc \in {"off", "exit"}
  /\ cliCalls < MaxCli
  /\ cliCalls' = cliCalls + 1
  /\ sw' = [sw EXCEPT !["cli"] = cmd_set_begin(profile_name)]
  /\ UNCHANGED <<jobs, runs, config, plog, host, profiles, IS_ROOT, w, pm, ex, st>>

\* ---- the API --------------------------------------------------------------
\* Variant of create_job that stores a status supplied in the request body
\* (a caller asking for "running").
create_job_accepts_status(job_type) ==
  /\ Len(jobs) < MaxJobs
  /\ jobs' = Append(jobs, [type |-> job_type, status |-> "running"])
  /\ UNCHANGED <<runs, config, plog, host, profiles, IS_ROOT, sw, w, cliCalls, pm, ex, st>>

\* POST /jobs and the /ui/jobs/start/* actions: one new row, status queued.
create_job(job_type) ==
  /\ Len(jobs) < MaxJobs
  /\ jobs' = Append(jobs, [type |-> job_type, status |-> "queued"])
  /\ UNCHANGED <<runs, config, plog, host, profiles, IS_ROOT, sw, w, cliCalls, pm, ex, st>>

\* ---- the worker loop -----------------------------------------------------
RECURSIVE NotFinishedFrom(_)
\* Variant of QueuedFrom whose filter is status != "finished": failed jobs
\* are fetched again.
NotFinishedFrom(i) ==
  IF i > Len(jobs) THEN <<>>
  ELSE (IF jobs[i].status \in {"queued", "error"} THEN <<i>> ELSE <<>>)
       \o NotFinishedFrom(i + 1)

RECURSIVE QueuedDescFrom(_)
\* Variant of QueuedFrom ordered by created_at descending: newest first.
QueuedDescFrom(i) ==
  IF i > Len(jobs) THEN <<>>
  ELSE QueuedDescFrom(i + 1) \o (IF jobs[i].status = "queued" THEN <<i>> ELSE <<>>)

RECURSIVE QueuedFrom(_)
\* Ids of the queued jobs with id >= i, ascending: created_at order.
QueuedFrom(i) ==
  IF i > Len(jobs) THEN <<>>
  ELSE (IF jobs[i].status = "queued" THEN <<i>> ELSE <<>>) \o QueuedFrom(i + 1)

\* WorkerEngine.start: the for loop of one cycle is over (or the process has
\* just started); after the sleep, lines 261-268 query the queued jobs.
WorkerFetch ==
  /\ w.pc = "next"
  /\ w.batch = <<>>
  /\ w' = [w EXCEPT !.batch = QueuedFrom(1)]
  /\ UNCHANGED <<jobs, runs, config, plog, host, profiles, IS_ROOT, sw, cliCalls, pm, ex, st>>

\* Variant of mark_running without the commit of line 151: the new status
\* stays in the worker's session until the commit at the end of process_job.
mark_running_uncommitted(job_id) ==
  jobs' = jobs

\* process_job lines 149-151: job.status = "running"; commit.
mark_running(job_id) ==
  jobs' = [jobs EXCEPT ![job_id].status = "running"]

\* process_job line 147 for the next job of the batch.  ensure_profile_for_job
\* lines 114-118: no required profile, return, and lines 149-151 follow at
\* once; lines 120-127: run profile_switcher.py set <profile> and wait.
ensure_profile_for_job ==
  /\ w.pc = "next"
  /\ w.batch # <<>>
  /\ LET j == Head(w.batch)
         required_profile == get_profile_for_job(jobs[j].type)
     IN IF required_profile = None
        THEN /\ w' = [w EXCEPT !.pc = "body", !.job = j, !.batch = Tail(@)]
             /\ sw' = [sw EXCEPT !["worker"] = SwOff]
             /\ mark_running(j)
        ELSE /\ w' = [w EXCEPT !.pc = "switching", !.job = j, !.batch = Tail(@)]
             /\ sw' = [sw EXCEPT !["worker"] = cmd_set_begin(required_profile)]
             /\ UNCHANGED jobs
  /\ UNCHANGED <<runs, config, plog, host, profiles, IS_ROOT, cliCalls, pm, ex, st>>

\* subprocess.run(cmd, check=True) raises CalledProcessError exactly for a
\* non-zero exit code.
switch_failed(rc) == rc # 0

\* ensure_profile_for_job lines 126-132: the switcher exited non-zero;
\* CalledProcessError is re-raised, and nothing in process_job or
\* WorkerEngine.start catches it: the worker process ends.
WorkerSwitchFailed ==
  /\ w.pc = "switching"
  /\ sw["worker"].pc = "exit"
  /\ switch_failed(sw["worker"].rc)
  /\ w' = [w EXCEPT !.pc = "stopped"]
  /\ UNCHANGED <<jobs, runs, config, plog, host, profiles, IS_ROOT, sw, cliCalls, pm, ex, st>>

\* The switcher exited 0: process_job lines 149-151.
WorkerMarkRunning ==
  /\ w.pc = "switching"
  /\ sw["worker"].pc = "exit"
  /\ ~switch_failed(sw["worker"].rc)
  /\ mark_running(w.job)
  /\ w' = [w EXCEPT !.pc = "body"]
  /\ UNCHANGED <<runs, config, plog, host, profiles, IS_ROOT, sw, cliCalls, pm, ex, st>>

Run(job_id, exit_code, stderr) ==
  [job_id |-> job_id, exit_code |-> exit_code, stderr |-> stderr]

\* process_job lines 182-199: no branch of the dispatch matches.
WorkerUnknownType ==
  /\ w.pc = "body"
  /\ jobs[w.job].type \notin HandledTypes
  /\ runs' = Append(runs, Run(w.job, 1, <<"Unknown job type", jobs[w.job].type>>))
  /\ jobs' = [jobs EXCEPT ![w.job].status = "error"]
  /\ w' = [w EXCEPT !.pc = "next", !.job = 0]
  /\ UNCHANGED <<config, plog, host, profiles, IS_ROOT, sw, cliCalls, pm, ex, st>>

\* Variant of WorkerBodyEnd whose commit persists the Run but not the Job's
\* terminal status: the worker moves on with the Job still running.
WorkerBodyEnd_status_not_committed ==
  /\ w.pc = "body"
  /\ jobs[w.job].type \in HandledTypes
  /\ \E o \in BodyOutcomes(jobs[w.job].type) :
       runs' = Append(runs, Run(w.job, IF o = "return" THEN 0 ELSE 1, <<>>))
  /\ w' = [w EXCEPT !.pc = "next", !.job = 0]
  /\ UNCHANGED <<jobs, config, plog, host, profiles, IS_ROOT, sw, cliCalls, pm, ex, st>>

\* process_job lines 162-180, then 201-216 or 218-236: the module body ends;
\* on a normal return the Run (exit_code 0) and status finished, on an
\* exception the Run (exit_code 1) and status error, in one commit.
WorkerBodyEnd ==
  /\ w.pc = "body"
  /\ jobs[w.job].type \in HandledTypes
  /\ \E o \in BodyOutcomes(jobs[w.job].type) :
       IF o = "return"
       THEN /\ runs' = Append(runs, Run(w.job, 0, <<>>))
            /\ jobs' = [jobs EXCEPT ![w.job].status = "finished"]
       ELSE /\ runs' = Append(runs, Run(w.job, 1, <<"Exception">>))
            /\ jobs' = [jobs EXCEPT ![w.job].status = "error"]
  /\ w' = [w EXCEPT !.pc = "next", !.job = 0]
  /\ UNCHANGED <<config, plog, host, profiles, IS_ROOT, sw, cliCalls, pm, ex, st>>

\* KeyboardInterrupt (or a kill) while a module body runs: it is no Exception,
\* so lines 218-236 do not run and the Job keeps the status it has.
WorkerInterrupt ==
  /\ w.pc = "body"
  /\ w' = [w EXCEPT !.pc = "stopped", !.batch = <<>>, !.job = 0]
  /\ UNCHANGED <<jobs, runs, config, plog, host, profiles, IS_ROOT, sw, cliCalls, pm, ex, st>>

\* The worker service is started again: a new process, a new first cycle.
WorkerRestart ==
  /\ w.pc = "stopped"
  /\ w' = [pc |-> "next", batch |-> <<>>, job |-> 0]
  /\ UNCHANGED <<jobs, runs, config, plog, host, profiles, IS_ROOT, sw, cliCalls, pm, ex, st>>

\* A `set` started from the CLI is interrupted (Ctrl-C, kill) between two of
\* its steps: the process ends where it is.
CliKill ==
  /\ sw["cli"].pc \in {"apply", "save", "log"}
  /\ sw' = [sw EXCEPT !["cli"] = [@ EXCEPT !.pc = "exit", !.cfg = SwOff.cfg, !.rc = -9,
                                       !.msg = "killed"]]
  /\ UNCHANGED <<jobs, runs, config, plog, host, profiles, IS_ROOT, w, cliCalls, pm, ex, st>>

\* ---- modules/core/plugin_manager.py: the plugin registry ------------------
\* The keys of PluginManager.plugins: the two fixed categories.
Categories == {"audits", "attacks"}

\* The plugin files of modules/audits and modules/attacks, as <<category,
\* name>>; every one of them defines run().
PluginFiles ==
  {<<"audits", "bt_recon">>, <<"audits", "hash_lookup">>, <<"audits", "web_recon">>,
   <<"audits", "wifi_recon">>, <<"attacks", "bt_active">>, <<"attacks", "web_attack">>,
   <<"attacks", "wifi_active">>}

\* The module-level REQUIRED_PROFILE of the plugin files that declare one.
REQUIRED_PROFILE ==
  [id \in {<<"audits", "web_recon">>, <<"audits", "wifi_recon">>,
           <<"attacks", "web_attack">>, <<"attacks", "wifi_active">>} |->
     CASE id = <<"audits", "web_recon">> -> "stealth_recon"
       [] id = <<"audits", "wifi_recon">> -> "wifi_audit"
       [] id = <<"attacks", "web_attack">> -> "aggressive_recon"
       [] id = <<"attacks", "wifi_active">> -> "wifi_audit"]

\* Identifiers given to enable_plugin / disable_plugin: three plugin files, a
\* name that is no file, and a category that is no key of plugins.
PluginIdInputs ==
  {<<"audits", "wifi_recon">>, <<"audits", "hash_lookup">>, <<"attacks", "bt_active">>,
   <<"audits", "no_such_plugin">>, <<"exploits", "wifi_recon">>}

\* _extract_metadata: getattr with the defaults False and None (no plugin
\* file declares CAN_RUN_PARALLEL).
extract_metadata(category, plugin_name) ==
  [name |-> plugin_name, category |-> category, can_run_parallel |-> FALSE,
   required_profile |->
     IF <<category, plugin_name>> \in DOMAIN REQUIRED_PROFILE
     THEN REQUIRED_PROFILE[<<category, plugin_name>>] ELSE None]

\* Plugin(plugin_name, category, module, metadata): enabled defaults to True.
Plugin(category, plugin_name) ==
  [metadata |-> extract_metadata(category, plugin_name), enabled |-> TRUE]

\* list(self.enabled_plugins): the elements of the set in the iteration order
\* of the process, one fixed order per set.
RECURSIVE ListOfSet(_)
ListOfSet(S) ==
  IF S = {} THEN <<>>
  ELSE LET x == CHOOSE y \in S : TRUE IN <<x>> \o ListOfSet(S \ {x})

\* set(enabled_list)
SetOfList(l) == {l[k] : k \in 1..Len(l)}

\* _load_enabled_state: data.get("enabled_plugins", []) of config.yaml.
load_enabled_state(cfg) == SetOfList(cfg.enabled_plugins)

\* _save_enabled_state: read config.yaml, replace the key, write it back.
save_enabled_state(cfg, enabled_plugins) ==
  [cfg EXCEPT !.enabled_plugins = ListOfSet(enabled_plugins)]

\* No call on the manager has returned yet.
NoCall == [op |-> "none", category |-> None, name |-> None, ret |-> None]

\* PluginManager.__init__: two empty categories, the enabled set loaded from
\* config.yaml.
PluginManager_init(cfg) ==
  [plugins |-> [c \in Categories |-> [n \in {} |-> Plugin(c, n)]],
   enabled_plugins |-> load_enabled_state(cfg),
   last |-> NoCall]

\* The plugin names found in plugin_dir.glob("*.py") of a category.
FilesOf(category) == {id[2] : id \in {f \in PluginFiles : f[1] = category}}

\* discover_plugins lines 111-157: every plugin file is imported again and
\* registered as a new Plugin, whose flag is set True in both branches of
\* lines 146-152; an id missing from enabled_plugins is added and saved.
discover_plugins(m, cfg) ==
  LET enabled == m.enabled_plugins \cup PluginFiles
  IN [pm |-> [m EXCEPT
                !.plugins =
                   [c \in Categories |->
                      [n \in (DOMAIN m.plugins[c]) \cup FilesOf(c) |->
                         IF n \in FilesOf(c) THEN Plugin(c, n) ELSE m.plugins[c][n]]],
                !.enabled_plugins = enabled],
      config |-> IF PluginFiles \subseteq m.enabled_plugins THEN cfg
                 ELSE save_enabled_state(cfg, enabled),
      ret |-> [c \in Categories |-> FilesOf(c)]]

\* Variant of enable_plugin that records and saves the id before it looks the
\* plugin up.
enable_plugin_saves_first(m, cfg, category, plugin_name) ==
  LET enabled == m.enabled_plugins \cup {<<category, plugin_name>>}
  IN IF category \notin DOMAIN m.plugins
          \/ plugin_name \notin DOMAIN m.plugins[category]
     THEN [pm |-> [m EXCEPT !.enabled_plugins = enabled],
           config |-> save_enabled_state(cfg, enabled), ret |-> FALSE]
     ELSE [pm |-> [m EXCEPT !.plugins[category][plugin_name].enabled = TRUE,
                            !.enabled_plugins = enabled],
           config |-> save_enabled_state(cfg, enabled), ret |-> TRUE]

\* enable_plugin lines 176-189.
enable_plugin(m, cfg, category, plugin_name) ==
  IF category \notin DOMAIN m.plugins THEN [pm |-> m, config |-> cfg, ret |-> FALSE]
  ELSE IF plugin_name \notin DOMAIN m.plugins[category]
  THEN [pm |-> m, config |-> cfg, ret |-> FALSE]
  ELSE LET enabled == m.enabled_plugins \cup {<<category, plugin_name>>}
       IN [pm |-> [m EXCEPT !.plugins[category][plugin_name].enabled = TRUE,
                            !.enabled_plugins = enabled],
           config |-> save_enabled_state(cfg, enabled), ret |-> TRUE]

\* Variant of disable_plugin that flips the flag (enabled = not enabled) and
\* the membership of the id instead of clearing them.
disable_plugin_toggles(m, cfg, category, plugin_name) ==
  IF category \notin DOMAIN m.plugins THEN [pm |-> m, config |-> cfg, ret |-> FALSE]
  ELSE IF plugin_name \notin DOMAIN m.plugins[category]
  THEN [pm |-> m, config |-> cfg, ret |-> FALSE]
  ELSE LET enabled ==
             IF m.plugins[category][plugin_name].enabled
             THEN m.enabled_plugins \ {<<category, plugin_name>>}
             ELSE m.enabled_plugins \cup {<<category, plugin_name>>}
       IN [pm |-> [m EXCEPT !.plugins[category][plugin_name].enabled = ~@,
                            !.enabled_plugins = enabled],
           config |-> save_enabled_state(cfg, enabled), ret |-> TRUE]

\* disable_plugin lines 191-203.
disable_plugin(m, cfg, category, plugin_name) ==
  IF category \notin DOMAIN m.plugins THEN [pm |-> m, config |-> cfg, ret |-> FALSE]
  ELSE IF plugin_name \notin DOMAIN m.plugins[category]
  THEN [pm |-> m, config |-> cfg, ret |-> FALSE]
  ELSE LET enabled == m.enabled_plugins \ {<<category, plugin_name>>}
       IN [pm |-> [m EXCEPT !.plugins[category][plugin_name].enabled = FALSE,
                            !.enabled_plugins = enabled],
           config |-> save_enabled_state(cfg, enabled), ret |-> TRUE]

\* The keys of plugins[category] in dict order: discover_plugins inserts them
\* in the order of sorted(plugin_dir.glob("*.py")).
SortedFiles(category) ==
  IF category = "audits" THEN <<"bt_recon", "hash_lookup", "web_recon", "wifi_recon">>
  ELSE IF category = "attacks" THEN <<"bt_active", "web_attack", "wifi_active">>
  ELSE <<>>

\* The ids <<category, name>> of the plugins of one category that pass the
\* test, in dict order.
RECURSIVE SelectPlugins(_, _, _, _)
SelectPlugins(m, category, names, keep_disabled) ==
  IF names = <<>> THEN <<>>
  ELSE (IF /\ Head(names) \in DOMAIN m.plugins[category]
           /\ (keep_disabled \/ m.plugins[category][Head(names)].enabled)
        THEN <<(<<category, Head(names)>>)>> ELSE <<>>)
       \o SelectPlugins(m, category, Tail(names), keep_disabled)

\* The categories get_enabled_plugins visits: [category] when the argument is
\* truthy, else the keys of plugins in dict order; a category that is no key
\* is skipped (line 219).
VisitedCategories(m, category) ==
  IF category = None THEN <<"audits", "attacks">>
  ELSE IF category \in DOMAIN m.plugins THEN <<category>> ELSE <<>>

\* Variant of get_enabled_plugins without the test of line 221.
get_enabled_plugins_ignores_flag(m, category) ==
  LET cats == VisitedCategories(m, category)
  IN IF cats = <<>> THEN <<>>
     ELSE IF Len(cats) = 1 THEN SelectPlugins(m, cats[1], SortedFiles(cats[1]), TRUE)
     ELSE SelectPlugins(m, cats[1], SortedFiles(cats[1]), TRUE)
          \o SelectPlugins(m, cats[2], SortedFiles(cats[2]), TRUE)

\* get_enabled_plugins lines 205-224: the plugins whose enabled flag is set.
get_enabled_plugins(m, category) ==
  LET cats == VisitedCategories(m, category)
  IN IF cats = <<>> THEN <<>>
     ELSE IF Len(cats) = 1 THEN SelectPlugins(m, cats[1], SortedFiles(cats[1]), FALSE)
     ELSE SelectPlugins(m, cats[1], SortedFiles(cats[1]), FALSE)
          \o SelectPlugins(m, cats[2], SortedFiles(cats[2]), FALSE)

\* Category arguments of get_enabled_plugins: none, the two categories, and a
\* category that is no key of plugins.
CategoryInputs == {None, "audits", "attacks", "exploits"}

\* What a call on the manager returned.
Call(op, category, plugin_name, ret) ==
  [op |-> op, category |-> category, name |-> plugin_name, ret |-> ret]

\* The process that hosts the manager starts (again): get_plugin_manager
\* line 254 builds a new PluginManager.
PmInit ==
  /\ pm' = [PluginManager_init(config) EXCEPT !.last = Call("init", None, None, None)]
  /\ UNCHANGED <<jobs, runs, config, plog, host, profiles, IS_ROOT, sw, w, cliCalls, ex, st>>

\* discover_plugins() on the manager (get_plugin_manager line 255, or a rescan).
PmDiscover ==
  /\ LET r == discover_plugins(pm, config)
     IN /\ pm' = [r.pm EXCEPT !.last = Call("discover", None, None, r.ret)]
        /\ config' = r.config
  /\ UNCHANGED <<jobs, runs, plog, host, profiles, IS_ROOT, sw, w, cliCalls, ex, st>>

PmEnable(category, plugin_name) ==
  /\ LET r == enable_plugin(pm, config, category, plugin_name)
     IN /\ pm' = [r.pm EXCEPT !.last = Call("enable", category, plugin_name, r.ret)]
        /\ config' = r.config
  /\ UNCHANGED <<jobs, runs, plog, host, profiles, IS_ROOT, sw, w, cliCalls, ex, st>>

PmDisable(category, plugin_name) ==
  /\ LET r == disable_plugin(pm, config, category, plugin_name)
     IN /\ pm' = [r.pm EXCEPT !.last = Call("disable", category, plugin_name, r.ret)]
        /\ config' = r.config
  /\ UNCHANGED <<jobs, runs, plog, host, profiles, IS_ROOT, sw, w, cliCalls, ex, st>>

PmGetEnabled(category) ==
  /\ pm' = [pm EXCEPT !.last = Call("get_enabled", category, None,
                                    get_enabled_plugins(pm, category))]
  /\ UNCHANGED <<jobs, runs, config, plog, host, profiles, IS_ROOT, sw, w, cliCalls, ex, st>>

\* ---- modules/core/plugin_executor.py -------------------------------------
\* Plugins handed to the executor: name and category of a registered plugin,
\* its CAN_RUN_PARALLEL metadata, and how its run(job) ends for this job.
PluginInputs ==
  {[name |-> id[2], category |-> id[1], can_run_parallel |-> par, outcome |-> o] :
     id \in {<<"audits", "wifi_recon">>, <<"attacks", "bt_active">>},
     par \in BOOLEAN, o \in {"return", "raise"}}

\* The lists of at most MaxPlugins plugins.
PluginLists == UNION {[1..n -> PluginInputs] : n \in 0..MaxPlugins}

\* The dict appended to results for one plugin (lines 60-65 and 70-76; the
\* elapsed time is left out).
Result(plugin) ==
  [plugin |-> plugin.name, category |-> plugin.category,
   status |-> IF plugin.outcome = "return" THEN "success" ELSE "error"]

\* execute_plugins_sequential lines 49-80 from plugin k on: plugin.run(job) is
\* entered and left (by return or by an Exception) before the next iteration.
\* trace lists the entries and exits of run(), results the dicts returned.
RECURSIVE SequentialFrom(_, _)
SequentialFrom(plugins, k) ==
  IF k > Len(plugins) THEN [trace |-> <<>>, results |-> <<>>]
  ELSE LET rest == SequentialFrom(plugins, k + 1)
       IN [trace |-> <<(<<"enter", k>>), (<<"exit", k>>)>> \o rest.trace,
           results |-> <<Result(plugins[k])>> \o rest.results]

execute_plugins_sequential(plugins) == SequentialFrom(plugins, 1)

\* Every run() of the plugins from k on is entered before any of them is left.
RECURSIVE EnterAllFrom(_, _)
EnterAllFrom(plugins, k) ==
  IF k > Len(plugins) THEN <<>>
  ELSE <<(<<"enter", k>>)>> \o EnterAllFrom(plugins, k + 1)

RECURSIVE ExitAllFrom(_, _)
ExitAllFrom(plugins, k) ==
  IF k > Len(plugins) THEN <<>>
  ELSE <<(<<"exit", k>>)>> \o ExitAllFrom(plugins, k + 1)

\* Variant of execute_plugins_smart that carries out the TODO of its
\* docstring: when every plugin of the list is parallel-safe they run
\* together, else the list runs sequentially.
execute_plugins_smart_parallel(plugins) ==
  IF plugins # <<>> /\ \A k \in 1..Len(plugins) : plugins[k].can_run_parallel
  THEN [trace |-> EnterAllFrom(plugins, 1) \o ExitAllFrom(plugins, 1),
        results |-> execute_plugins_sequential(plugins).results]
  ELSE execute_plugins_sequential(plugins)

\* execute_plugins_smart lines 82-89.
execute_plugins_smart(plugins) == execute_plugins_sequential(plugins)

\* The method has not been called.
NotCalled == [trace |-> <<>>, results |-> None]

\* No executor call is under way in the processes of the job core.
ExOff == [plugins |-> <<>>, smart |-> NotCalled, sequential |-> NotCalled]

ExSmart ==
  /\ ex.smart = NotCalled
  /\ ex' = [ex EXCEPT !.smart = execute_plugins_smart(ex.plugins)]
  /\ UNCHANGED <<jobs, runs, config, plog, host, profiles, IS_ROOT, sw, w, cliCalls, pm, st>>

ExSequential ==
  /\ ex.sequential = NotCalled
  /\ ex' = [ex EXCEPT !.sequential = execute_plugins_sequential(ex.plugins)]
  /\ UNCHANGED <<jobs, runs, config, plog, host, profiles, IS_ROOT, sw, w, cliCalls, pm, st>>

\* ---- the writers of config.yaml, step by step ----------------------------
\* Values of the ui form field of /ui/config/save.
UiInputs == {"admin", "operator"}

\* ui_save_config lines 810-819: the document is loaded and the form fields
\* are set in the copy.
ApiConfigLoad(ui) ==
  /\ st.api.pc = "off"
  /\ st' = [st EXCEPT !.api = [pc |-> "dump", data |-> [config EXCEPT !.ui = ui]]]
  /\ UNCHANGED <<jobs, runs, config, plog, host, profiles, IS_ROOT, sw, w, cliCalls, pm, ex>>

\* ui_save_config lines 821-823: the copy is dumped over config.yaml.
ApiConfigDump ==
  /\ st.api.pc = "dump"
  /\ config' = st.api.data
  /\ st' = [st EXCEPT !.api = StOff.api]
  /\ UNCHANGED <<jobs, runs, plog, host, profiles, IS_ROOT, sw, w, cliCalls, pm, ex>>

\* The plugin enabled and disabled while the other writers run, and a name
\* that is no plugin.
StoreIdInputs == {<<"audits", "wifi_recon">>, <<"audits", "no_such_plugin">>}

\* enable_plugin / disable_plugin up to the read of _save_enabled_state line
\* 94: the flag and the enabled set are changed in memory and config.yaml is
\* loaded.  Nothing is loaded when the call returns False.
RegSaveLoad(op, category, plugin_name) ==
  /\ st.reg.pc = "off"
  /\ LET r == IF op = "enable" THEN enable_plugin(pm, config, category, plugin_name)
              ELSE disable_plugin(pm, config, category, plugin_name)
     IN /\ pm' = r.pm
        /\ st' = IF r.ret THEN [st EXCEPT !.reg = [pc |-> "dump", data |-> config]]
                 ELSE st
  /\ UNCHANGED <<jobs, runs, config, plog, host, profiles, IS_ROOT, sw, w, cliCalls, ex>>

\* _save_enabled_state lines 95-97: the key is set in the loaded document,
\* which is dumped over config.yaml.
RegSaveDump ==
  /\ st.reg.pc = "dump"
  /\ config' = save_enabled_state(st.reg.data, pm.enabled_plugins)
  /\ st' = [st EXCEPT !.reg = StOff.reg]
  /\ UNCHANGED <<jobs, runs, plog, host, profiles, IS_ROOT, sw, w, cliCalls, pm, ex>>

\* ---- specification --------------------------------------------------------
Init ==
  /\ jobs = <<>>
  /\ runs = <<>>
  /\ config = FirstRunConfig
  /\ plog = <<>>
  /\ host = [ifaceCmds |-> 0, uplinkCmds |-> 0, uplink |-> "off"]
  /\ profiles \in Catalogs
  /\ IS_ROOT \in BOOLEAN
  /\ sw = [p \in Procs |-> SwOff]
  /\ w = [pc |-> "next", batch |-> <<>>, job |-> 0]
  /\ cliCalls = 0
  /\ pm = PluginManager_init(config)
  /\ ex = ExOff
  /\ st = StOff

Next ==
  \/ \E t \in JobTypeInputs : create_job(t)
  \/ \E n \in CliNameInputs : CliSet(n)
  \/ \E p \in Procs : SwCheckRunning(p)
  \/ \E p \in Procs : SwApply(p)
  \/ \E p \in Procs : SwSave(p)
  \/ \E p \in Procs : SwLog(p)
  \/ CliKill
  \/ WorkerFetch
  \/ ensure_profile_for_job
  \/ WorkerSwitchFailed
  \/ WorkerMarkRunning
  \/ WorkerUnknownType
  \/ WorkerBodyEnd
  \/ WorkerInterrupt
  \/ WorkerRestart

Spec == Init /\ [][Next]_vars

\* The worker, once started by its service, keeps executing, a switcher
\* process runs to its end unless killed, and a stopped worker is started
\* again: weak fairness on each of their steps.
Fairness ==
  /\ WF_vars(WorkerFetch)
  /\ WF_vars(ensure_profile_for_job)
  /\ WF_vars(WorkerSwitchFailed)
  /\ WF_vars(WorkerMarkRunning)
  /\ WF_vars(WorkerUnknownType)
  /\ WF_vars(WorkerBodyEnd)
  /\ WF_vars(WorkerRestart)
  /\ \A p \in Procs :
       /\ WF_vars(SwCheckRunning(p))
       /\ WF_vars(SwApply(p))
       /\ WF_vars(SwSave(p))
       /\ WF_vars(SwLog(p))

\* The job core when no module body is ever interrupted: every body returns
\* or raises.
NextBodiesEnd ==
  \/ \E t \in JobTypeInputs : create_job(t)
  \/ \E n \in CliNameInputs : CliSet(n)
  \/ \E p \in Procs : SwCheckRunning(p)
  \/ \E p \in Procs : SwApply(p)
  \/ \E p \in Procs : SwSave(p)
  \/ \E p \in Procs : SwLog(p)
  \/ CliKill
  \/ WorkerFetch
  \/ ensure_profile_for_job
  \/ WorkerSwitchFailed
  \/ WorkerMarkRunning
  \/ WorkerUnknownType
  \/ WorkerBodyEnd
  \/ WorkerRestart

SpecBodiesEnd == Init /\ [][NextBodiesEnd]_vars /\ Fairness

\* The job core with interruptions of the worker, under the same fairness.
SpecFair == Init /\ [][Next]_vars /\ Fairness

\* The plugin registry on its own: a host on which no Job is queued and no
\* `set` runs, and the calls made on the PluginManager.
InitRegistry ==
  /\ jobs = <<>>
  /\ runs = <<>>
  /\ config = FirstRunConfig
  /\ plog = <<>>
  /\ host = [ifaceCmds |-> 0, uplinkCmds |-> 0, uplink |-> "off"]
  /\ profiles = CatalogFull
  /\ IS_ROOT = FALSE
  /\ sw = [p \in Procs |-> SwOff]
  /\ w = [pc |-> "stopped", batch |-> <<>>, job |-> 0]
  /\ cliCalls = 0
  /\ pm = PluginManager_init(config)
  /\ ex = ExOff
  /\ st = StOff

NextRegistry ==
  \/ PmInit
  \/ PmDiscover
  \/ \E id \in PluginIdInputs : PmEnable(id[1], id[2])
  \/ \E id \in PluginIdInputs : PmDisable(id[1], id[2])
  \/ \E c \in CategoryInputs : PmGetEnabled(c)

SpecRegistry == InitRegistry /\ [][NextRegistry]_vars

\* The plugin executor on its own: a list of plugins, and the two methods
\* called on it.
InitExecutor ==
  /\ jobs = <<>>
  /\ runs = <<>>
  /\ config = FirstRunConfig
  /\ plog = <<>>
  /\ host = [ifaceCmds |-> 0, uplinkCmds |-> 0, uplink |-> "off"]
  /\ profiles = CatalogFull
  /\ IS_ROOT = FALSE
  /\ sw = [p \in Procs |-> SwOff]
  /\ w = [pc |-> "stopped", batch |-> <<>>, job |-> 0]
  /\ cliCalls = 0
  /\ pm = PluginManager_init(config)
  /\ \E l \in PluginLists : ex = [ExOff EXCEPT !.plugins = l]
  /\ st = StOff

NextExecutor ==
  \/ ExSmart
  \/ ExSequential

SpecExecutor == InitExecutor /\ [][NextExecutor]_vars

\* The users of config.yaml together: `set` run from the CLI, the API's
\* configuration save and the registry's persistence, on a host whose plugin
\* manager has been built and has discovered the plugin files
\* (get_plugin_manager), with no Job queued.
DiscoveredAtStart == discover_plugins(PluginManager_init(FirstRunConfig), FirstRunConfig)

InitStore ==
  /\ jobs = <<>>
  /\ runs = <<>>
  /\ config = DiscoveredAtStart.config
  /\ plog = <<>>
  /\ host = [ifaceCmds |-> 0, uplinkCmds |-> 0, uplink |-> "off"]
  /\ profiles = CatalogFull
  /\ IS_ROOT \in BOOLEAN
  /\ sw = [p \in Procs |-> SwOff]
  /\ w = [pc |-> "stopped", batch |-> <<>>, job |-> 0]
  /\ cliCalls = 0
  /\ pm = DiscoveredAtStart.pm
  /\ ex = ExOff
  /\ st = StOff

NextStore ==
  \/ \E n \in CliNameInputs : CliSet(n)
  \/ \E p \in Procs : SwCheckRunning(p)
  \/ \E p \in Procs : SwApply(p)
  \/ \E p \in Procs : SwSave(p)
  \/ \E p \in Procs : SwLog(p)
  \/ \E ui \in UiInputs : ApiConfigLoad(ui)
  \/ ApiConfigDump
  \/ \E op \in {"enable", "disable"} : \E id \in StoreIdInputs :
       RegSaveLoad(op, id[1], id[2])
  \/ RegSaveDump

SpecStore == InitStore /\ [][NextStore]_vars

\* ---- properties -----------------------------------------------------------
\* Some Job has status running (read directly from the jobs table).
AnyJobRunning == \E i \in 1..Len(jobs) : jobs[i].status = "running"

\* The active profile config.yaml holds before any transition.
InitialProfile == "idle"

\* A step that mutates what a transition mutates: the host's interfaces or
\* uplink, or the persisted active-profile name.
SwitchMutation == host' # host \/ config' # config

\* C1: with the worker loop and a CLI `set` running concurrently, no interface
\* command, uplink switch or write of the active-profile name is performed
\* while some Job has status running.
C1_NoMutationWhileJobRunning ==
  [][SwitchMutation => ~AnyJobRunning]_vars

\* C2: a `set` of a catalog profile other than the active one that finds a
\* running Job at its check is refused and mutates nothing: no ProfileLogEntry,
\* active profile unchanged, no interface or uplink command; the process ends.
C2_RefusedSetMutatesNothing ==
  [][\A p \in Procs :
       (sw[p].pc = "check_running" /\ sw'[p] # sw[p] /\ AnyJobRunning)
         => /\ sw'[p].pc = "exit"
            /\ sw'[p].msg = "refused"
            /\ plog' = plog
            /\ config' = config
            /\ host' = host]_vars

C2_Witness ==
  /\ sw["cli"].pc = "exit"
  /\ sw["cli"].msg = "refused"
  /\ sw["cli"].name # config.active_profile
  /\ AnyJobRunning

AllowedTransitions ==
  {<<"queued", "running">>, <<"running", "finished">>, <<"running", "error">>}

\* The worker's step that executes job.status = "running" on job i.
MarksRunning(i) == w.pc # "body" /\ w'.pc = "body" /\ w'.job = i

\* C3: the only status changes are queued->running, running->finished and
\* running->error; a Job is never marked running unless it is queued, never
\* leaves finished or error, and new Jobs start queued.
C3_StatusTransitions ==
  [][/\ Len(jobs') >= Len(jobs)
     /\ \A i \in 1..Len(jobs) :
          /\ jobs'[i].type = jobs[i].type
          /\ jobs'[i].status # jobs[i].status
               => <<jobs[i].status, jobs'[i].status>> \in AllowedTransitions
          /\ MarksRunning(i) => jobs[i].status = "queued"
     /\ \A i \in (Len(jobs) + 1)..Len(jobs') : jobs'[i].status = "queued"]_vars

C3_Witness ==
  /\ \E i \in 1..Len(jobs) : jobs[i].status = "finished"
  /\ \E i \in 1..Len(jobs) : jobs[i].status = "error"

\* C4: whenever a Job whose type requires profile P has status running, the
\* persisted active profile is P; and a Job is never marked running after a
\* refused switch.
C4_RunningOnlyUnderRequiredProfile ==
  /\ \A i \in 1..Len(jobs) :
       (jobs[i].status = "running" /\ get_profile_for_job(jobs[i].type) # None)
         => config.active_profile = get_profile_for_job(jobs[i].type)
  /\ (w.pc = "body" /\ jobs[w.job].status = "running")
       => sw["worker"].msg # "refused"

\* C5: the active-profile name and the ProfileLog change together: in every
\* state the persisted name is the new_profile of the newest entry (or the
\* initial name when there is none).
C5_NameAndLogAtomic ==
  config.active_profile =
    (IF plog = <<>> THEN InitialProfile ELSE plog[Len(plog)].new_profile)

\* The step of process p that runs cmd_set from its first line.
Invokes(p) == sw[p].pc \in {"off", "exit"} /\ sw'[p] # sw[p] /\ sw'[p].name # None

\* C6: `set(A)` for a catalog profile A that is the active profile is a
\* successful no-op (exit code 0, no ProfileLogEntry, config.yaml not
\* rewritten, no interface or uplink command), whether or not a Job runs.
C6_SetActiveIsNoOp ==
  [][\A p \in Procs :
       (Invokes(p) /\ sw'[p].name \in DOMAIN profiles
          /\ sw'[p].name = config.active_profile)
         => /\ sw'[p].pc = "exit"
            /\ sw'[p].rc = 0
            /\ sw'[p].msg = "already_active"
            /\ plog' = plog
            /\ config' = config
            /\ host' = host]_vars

C6_Witness ==
  /\ sw["cli"].pc = "exit"
  /\ sw["cli"].msg = "already_active"
  /\ sw["cli"].rc = 0
  /\ sw["cli"].name = config.active_profile
  /\ AnyJobRunning

\* C7: `set(name)` with a name that is no key of the catalog exits with code 1
\* and no side effect, whatever the active profile and the Jobs are.
C7_UnknownProfileIsFatal ==
  [][\A p \in Procs :
       (Invokes(p) /\ sw'[p].name \notin DOMAIN profiles)
         => /\ sw'[p].pc = "exit"
            /\ sw'[p].rc = 1
            /\ sw'[p].msg = "unknown_profile"
            /\ plog' = plog
            /\ config' = config
            /\ host' = host]_vars

C7_Witness ==
  /\ sw["cli"].pc = "exit"
  /\ sw["cli"].msg = "unknown_profile"
  /\ sw["cli"].rc = 1
  /\ sw["cli"].name \notin DOMAIN profiles
  /\ AnyJobRunning

\* C8: `set <name>` exits 0 exactly when the transition was committed or was a
\* no-op, and 1 when the name is unknown or the request was refused.
C8_ExitCodeTellsOutcome ==
  \A p \in Procs :
    sw[p].pc = "exit"
      => /\ sw[p].rc = 0 <=> sw[p].msg \in {"completed", "already_active"}
         /\ sw[p].msg \in {"unknown_profile", "refused"} => sw[p].rc = 1

\* C9: an accepted transition persists the requested name and appends the
\* entry (old, new) whether or not the switcher is privileged, and an
\* unprivileged switcher issues no interface and no uplink command.
C9_PrivilegeDegradation ==
  [][/\ ~IS_ROOT => host' = host
     /\ \A p \in Procs :
          /\ (sw[p].pc = "save" /\ sw'[p].pc = "log")
               => config'.active_profile = sw[p].name
          /\ (sw[p].pc = "log" /\ sw'[p].msg = "completed")
               => plog' = Append(plog, [old_profile |-> sw[p].cfg.active_profile,
                                        new_profile |-> sw[p].name,
                                        triggered_by |-> p])]_vars

C9_Witness ==
  /\ ~IS_ROOT
  /\ \E p \in Procs :
       /\ sw[p].pc = "exit"
       /\ sw[p].msg = "completed"
       /\ config.active_profile = sw[p].name
       /\ plog # <<>>
       /\ plog[Len(plog)].new_profile = sw[p].name
  /\ host.ifaceCmds = 0
  /\ host.uplinkCmds = 0

\* C10: a Job whose type has no handler ends in error with exactly one Run
\* (exit_code 1, stderr naming the type), and the Profile Switcher is not
\* invoked for it: active profile and ProfileLog stay as they are.
C10_UnresolvableTypeNoSwitch ==
  [][\A i \in 1..Len(jobs) :
       jobs[i].type \notin HandledTypes
         => /\ ~(w'.job = i /\ w'.pc = "switching")
            /\ (jobs[i].status # "error" /\ jobs'[i].status = "error")
                 => /\ runs' = Append(runs, Run(i, 1, <<"Unknown job type", jobs[i].type>>))
                    /\ plog' = plog
                    /\ config' = config]_vars

\* The runs table rows that belong to job i.
RunsOf(i) == {k \in 1..Len(runs) : runs[k].job_id = i}

TerminalStatuses == {"finished", "error"}

\* The worker process ended at a failed profile switch for job w.job (an
\* interrupted body leaves w.job = 0).
SwitchFailedFor(i) == w.pc = "stopped" /\ w.job = i

\* C11: each terminal Job has exactly one Run, with exit_code 0 iff the Job is
\* finished and 1 iff it is error; queued and running Jobs have no Run; and a
\* Job that failed at its profile switch has a Run to inspect as well.
C11_EveryFailureHasRun ==
  \A i \in 1..Len(jobs) :
    /\ jobs[i].status \in TerminalStatuses
         => /\ Cardinality(RunsOf(i)) = 1
            /\ \A k \in RunsOf(i) :
                 /\ runs[k].exit_code = 0 <=> jobs[i].status = "finished"
                 /\ runs[k].exit_code = 1 <=> jobs[i].status = "error"
    /\ (jobs[i].status \notin TerminalStatuses /\ ~SwitchFailedFor(i))
         => RunsOf(i) = {}
    /\ SwitchFailedFor(i) => RunsOf(i) # {}

\* The worker's step at which the Job it holds fails: the profile switch for
\* it has exited non-zero, or its body raised or its type has no handler.
JobFails ==
  \/ /\ w.pc = "switching"
     /\ w'.pc # "switching"
     /\ sw["worker"].pc = "exit"
     /\ sw["worker"].rc # 0
  \/ /\ w.pc = "body"
     /\ jobs[w.job].status # "error"
     /\ jobs'[w.job].status = "error"

\* C12: no Job's failure stops the worker loop: after the step at which a Job
\* fails (raising body, unresolvable type, or profile switch exiting non-zero)
\* the loop is running and goes on to the next Job.
C12_LoopSurvivesJobFailure ==
  [][JobFails => w'.pc = "next"]_vars

C14_AtMostOneRunning ==
  /\ Cardinality({i \in 1..Len(jobs) : jobs[i].status = "running"}) <= 1
  /\ w.pc = "body" => jobs[w.job].status = "running"

\* C15: FIFO start order: when a Job b is marked running, every Job created
\* before it has already been marked running (none of them is still queued),
\* within one cycle and across cycles.
C15_FifoStartOrder ==
  [][\A b \in 1..Len(jobs) :
       MarksRunning(b) => \A a \in 1..(b - 1) : jobs[a].status # "queued"]_vars

C15_Witness ==
  /\ Len(jobs) = 2
  /\ jobs[1].status \in TerminalStatuses
  /\ jobs[2].status = "running"
  /\ w.pc = "body"
  /\ w.job = 2

\* C16: from active profile idle and a single queued wifi_recon Job, with no
\* other actor, the worker's cycle ends with active profile wifi_audit, the
\* one ProfileLogEntry idle -> wifi_audit, the Job finished and exactly one
\* Run for it, with exit_code 0.
C16_WifiReconScenario ==
  (/\ Len(jobs) = 1
   /\ jobs[1].type = "wifi_recon"
   /\ jobs[1].status \in TerminalStatuses
   /\ cliCalls = 0)
    => /\ config.active_profile = "wifi_audit"
       /\ Len(plog) = 1
       /\ plog[1].old_profile = "idle"
       /\ plog[1].new_profile = "wifi_audit"
       /\ jobs[1].status = "finished"
       /\ Len(runs) = 1
       /\ runs[1].job_id = 1
       /\ runs[1].exit_code = 0

\* (category, name) is a key of the registry.
Registered(category, plugin_name) ==
  category \in DOMAIN pm.plugins /\ plugin_name \in DOMAIN pm.plugins[category]

\* C17: for every registered plugin, the profile the worker's type -> profile
\* mapping gives for the plugin's name is the plugin's declared
\* required_profile, and it is None when the plugin declares none.
C17_MappingAgreesWithMetadata ==
  \A c \in Categories :
    \A n \in DOMAIN pm.plugins[c] :
      get_profile_for_job(n) = pm.plugins[c][n].metadata.required_profile

\* C18: enable and disable on an identifier that is not registered return
\* failure and leave the enabled set, every plugin's flag and the persisted
\* list as they are.
C18_UnregisteredIsRefused ==
  \A id \in PluginIdInputs :
    ~Registered(id[1], id[2])
      => /\ enable_plugin(pm, config, id[1], id[2])
              = [pm |-> pm, config |-> config, ret |-> FALSE]
         /\ disable_plugin(pm, config, id[1], id[2])
              = [pm |-> pm, config |-> config, ret |-> FALSE]

C18_Witness ==
  /\ pm.last.op \in {"enable", "disable"}
  /\ pm.last.ret = FALSE
  /\ ~Registered(pm.last.category, pm.last.name)
  /\ <<pm.last.category, pm.last.name>> \notin pm.enabled_plugins
  /\ <<pm.last.category, pm.last.name>> \notin SetOfList(config.enabled_plugins)
  /\ \E c \in Categories : \E n \in DOMAIN pm.plugins[c] : ~pm.plugins[c][n].enabled

\* C19: on a registered plugin, enable applied twice gives the registry and
\* the persisted list that enable applied once gives, and both calls return
\* success; likewise disable.
C19_EnableDisableIdempotent ==
  \A c \in Categories :
    \A n \in DOMAIN pm.plugins[c] :
      /\ LET once == enable_plugin(pm, config, c, n)
             twice == enable_plugin(once.pm, once.config, c, n)
         IN /\ once.ret
            /\ twice.ret
            /\ twice.pm = once.pm
            /\ twice.config = once.config
      /\ LET once == disable_plugin(pm, config, c, n)
             twice == disable_plugin(once.pm, once.config, c, n)
         IN /\ once.ret
            /\ twice.ret
            /\ twice.pm = once.pm
            /\ twice.config = once.config

C19_Witness ==
  /\ pm.last.op = "disable"
  /\ pm.last.ret = TRUE
  /\ Registered(pm.last.category, pm.last.name)
  /\ ~pm.plugins[pm.last.category][pm.last.name].enabled
  /\ <<pm.last.category, pm.last.name>> \notin pm.enabled_plugins
  /\ <<pm.last.category, pm.last.name>> \notin SetOfList(config.enabled_plugins)
  /\ \E id \in PluginFiles : id \in SetOfList(config.enabled_plugins)

\* C20: once the plugin files are registered, discover() run again with the
\* files unchanged leaves the registry as it is: same keys, same metadata,
\* same enabled flag for every plugin.
C20_DiscoverIdempotent ==
  (\A id \in PluginFiles : Registered(id[1], id[2]))
    => discover_plugins(pm, config).pm.plugins = pm.plugins

\* C21: the disabled state survives a restart: a new PluginManager built on
\* the persisted list, followed by discover(), leaves every plugin that is
\* registered and disabled now disabled.
C21_DisabledSurvivesRestart ==
  LET restarted == discover_plugins(PluginManager_init(config), config).pm
  IN \A c \in Categories :
       \A n \in DOMAIN pm.plugins[c] :
         ~pm.plugins[c][n].enabled => ~restarted.plugins[c][n].enabled

\* The ids of a list.
IdsOf(l) == {l[k] : k \in 1..Len(l)}

\* C30: for every registered plugin the enabled flag is set exactly when its
\* id is in the manager's enabled set, and get_enabled_plugins returns, once
\* each, exactly the registered plugins whose flag is set, of the category
\* when one is given.
C30_RegistryConsistent ==
  /\ \A c \in Categories :
       \A n \in DOMAIN pm.plugins[c] :
         pm.plugins[c][n].enabled <=> <<c, n>> \in pm.enabled_plugins
  /\ \A cat \in CategoryInputs :
       LET l == get_enabled_plugins(pm, cat)
       IN /\ IdsOf(l) = {id \in PluginFiles :
                           /\ Registered(id[1], id[2])
                           /\ pm.plugins[id[1]][id[2]].enabled
                           /\ cat \in {None, id[1]}}
          /\ Cardinality(IdsOf(l)) = Len(l)

C30_Witness ==
  /\ pm.last.op = "get_enabled"
  /\ pm.last.category = "audits"
  /\ pm.last.ret # <<>>
  /\ \E n \in DOMAIN pm.plugins["audits"] :
       /\ ~pm.plugins["audits"][n].enabled
       /\ <<"audits", n>> \notin IdsOf(pm.last.ret)
       /\ <<"audits", n>> \notin pm.enabled_plugins
  /\ \E n \in DOMAIN pm.plugins["attacks"] : pm.plugins["attacks"][n].enabled

\* The entries and exits of a trace alternate, plugin by plugin in list
\* order: run() k is entered at position 2k-1 and left at position 2k.
OneAtATime(trace, n) ==
  /\ Len(trace) = 2 * n
  /\ \A k \in 1..n : trace[2 * k - 1] = <<"enter", k>> /\ trace[2 * k] = <<"exit", k>>

C23_ApiOnlyCreatesQueued ==
  [][/\ Len(jobs') # Len(jobs)
          => /\ Len(jobs') = Len(jobs) + 1
             /\ jobs'[Len(jobs')].status = "queued"
             /\ \A i \in 1..Len(jobs) : jobs'[i] = jobs[i]
             /\ runs' = runs
             /\ config' = config
             /\ plog' = plog
             /\ w' = w
     /\ (\E i \in 1..Len(jobs) : jobs'[i].status # jobs[i].status)
          => (Len(jobs') = Len(jobs) /\ w' # w /\ w'.pc \in {"body", "next"})]_vars

C23_Witness ==
  /\ Len(jobs) = 2
  /\ jobs[1].status \in TerminalStatuses
  /\ jobs[2].status = "queued"
  /\ w.pc = "next"
  /\ w.batch = <<>>
  /\ runs # <<>>
  /\ plog # <<>>

\* The step of a switcher that dumps config.yaml (cmd_set line 373).
SwitcherWrites == \E p \in Procs : sw[p].pc = "save" /\ sw'[p].pc = "log"

\* C24: with the switcher, the API's configuration save and the registry's
\* persistence interleaved on config.yaml, the persisted active-profile name
\* changes only in a write of the switcher, and a write of the switcher
\* leaves the persisted enabled-plugin list as it is.
C24_StoreWritersDoNotClobber ==
  [][/\ config'.active_profile # config.active_profile => SwitcherWrites
     /\ SwitcherWrites => config'.enabled_plugins = config.enabled_plugins]_vars

\* The uplink mode a profile declares: wifi, bluetooth or usb, and off for
\* none or unset.
DeclaredUplink(profile_name) ==
  IF profiles[profile_name].internet_via \in {"wifi", "bluetooth", "usb"}
  THEN profiles[profile_name].internet_via ELSE "off"

\* C25: when a transition to P run as root has been committed (here by the
\* worker's switcher, with no `set` from the CLI beside it), the uplink in
\* effect on the host is the one P declares, off when P declares none.
C25_UplinkFollowsProfile ==
  (/\ IS_ROOT
   /\ cliCalls = 0
   /\ sw["worker"].pc = "exit"
   /\ sw["worker"].msg = "completed")
    => host.uplink = DeclaredUplink(sw["worker"].name)

\* C26: when every body returns or raises and the worker keeps being
\* scheduled, every Job that is queued eventually is finished or error.
C26_QueueLiveness ==
  \A i \in 1..MaxJobs :
    (Len(jobs) >= i /\ jobs[i].status = "queued")
      ~> (Len(jobs) >= i /\ jobs[i].status \in TerminalStatuses)

\* C27: every Job that is running eventually is finished or error, also when
\* the worker is interrupted during the body and started again.
C27_RunningEventuallyEnds ==
  \A i \in 1..MaxJobs :
    (Len(jobs) >= i /\ jobs[i].status = "running")
      ~> (Len(jobs) >= i /\ jobs[i].status \in TerminalStatuses)

\* No `set` process is between its first and its last line, and none was
\* killed on the way.
NoTransitionInProgress ==
  \A p \in Procs : sw[p].pc \in {"off", "exit"} /\ sw[p].msg # "killed"

\* C28: whenever no transition is in progress the ProfileLog is the history
\* of the active profile: each entry starts from the profile the previous one
\* ended in (the first from the initial one), no entry has old_profile equal
\* to new_profile, and the newest entry ends in the persisted active profile;
\* invocations that overlapped in time included.
C28_LogIsFaithfulHistory ==
  NoTransitionInProgress
    => /\ \A k \in 1..Len(plog) :
            /\ plog[k].old_profile # plog[k].new_profile
            /\ plog[k].old_profile =
                 (IF k = 1 THEN InitialProfile ELSE plog[k - 1].new_profile)
       /\ plog # <<>> => plog[Len(plog)].new_profile = config.active_profile

\* C29: the status running is committed when the body begins and the
\* terminal status is committed, with the Run, only by the step that ends the
\* body; so a switcher whose running-job check is made while a body executes
\* finds a running Job and refuses.
C29_CheckDuringBodyRefuses ==
  [][/\ (w.pc # "body" /\ w'.pc = "body") => jobs'[w'.job].status = "running"
     /\ (w.pc = "body" /\ w'.pc = "body") => jobs'[w.job].status = "running"
     /\ (w.pc = "body" /\ jobs'[w.job].status \in TerminalStatuses)
          => (w'.pc = "next" /\ Len(runs') = Len(runs) + 1)
     /\ \A p \in Procs :
          (w.pc = "body" /\ sw[p].pc = "check_running" /\ sw'[p] # sw[p])
            => (sw'[p].pc = "exit" /\ sw'[p].msg = "refused")]_vars

C29_Witness ==
  /\ w.pc = "body"
  /\ jobs[w.job].status = "running"
  /\ RunsOf(w.job) = {}
  /\ sw["cli"].pc = "exit"
  /\ sw["cli"].msg = "refused"
  /\ \A i \in 1..Len(jobs) : i # w.job => jobs[i].status # "running"

====
